---- MODULE Spec2Model ----
(***************************************************************************)
(* Model of the Logger of gvray/logger: src/src/utils.ts (class Logger,    *)
(* lines 146-389), the built-in stages of src/src/middleware.ts and the    *)
(* types of src/unnamed/part_000.                                          *)
(*                                                                         *)
(* One log call is synchronous, so it is one action; the recursion of      *)
(* next() through the stages is the recursive operator CallNext.           *)
(* Strings are sequences of tokens; a template literal or an Array.join is *)
(* the concatenation of the token sequences.                               *)
(***************************************************************************)
EXTENDS Integers, Sequences, FiniteSets, TLC

VARIABLES
  loggers,   \* Seq of Logger objects (the fields of class Logger)
  arrays,    \* heap of array objects: reference -> Seq of stage / listener names
  counts,    \* private Map of each throttleMiddleware closure
  now,       \* the clock read by new Date() and Date.now()
  path,      \* history: per logger, the root namespace option and the child segments
  admitted,  \* history: the calls the throttle stages let through
  batches,   \* per batchMiddleware closure: its batch and timer, the timeout the
             \* host holds for it, and its onFlush callback
  last       \* the last operation: its inputs and what it was observed to do

vars == <<loggers, arrays, counts, now, path, admitted, batches, last>>

----------------------------------------------------------------------------
(* Bounds of the model *)

MaxStages == 3       \* stages of the logger of Spec
MaxChainListeners == 1
MaxGateStages == 1   \* stages of the logger of SpecGate
MaxListeners == 2    \* listeners of the logger of SpecGate
MaxLoggers == 3      \* loggers of SpecNames
MaxFamily == 2       \* loggers of SpecSettings, SpecSnap and SpecShared
MaxSnapStages == 2
MaxSnapListeners == 2
MaxTime == 2
MaxSilentStages == 2 \* stages of the logger of SpecSilent
MaxSilentListeners == 1
MaxFanStages == 1    \* stages of the logger of SpecFan
MaxFanListeners == 3 \* listeners of the logger of SpecFan
MaxFormatStages == 2 \* stages of the logger of SpecFormat
MaxFormatListeners == 1
MaxThrottleStages == 2 \* stages of the logger of SpecThrottle
MaxWindowStages == 1 \* stages of the logger of SpecWindow
MaxRedactStages == 2 \* stages of the logger of SpecRedact
MaxInflightStages == 1 \* stages of the logger of SpecInflight
MaxInflightListeners == 3
MaxFreshStages == 3 \* stages of the logger of SpecFresh
MaxCondStages == 3 \* stages of the logger of SpecCond
MaxCondListeners == 1
MaxFilterStages == 2 \* stages of the logger of SpecFilter
MaxFilterListeners == 1
MaxLateStages == 2 \* stages of the logger of SpecLate
MaxLateListeners == 1
MaxBatchStages == 2 \* stages of the logger of SpecBatch and SpecBatchLive
MaxBatchCalls == 5 \* Contexts that enter one batching stage

----------------------------------------------------------------------------
(* enum LogLevel *)

TRACE == 0
DEBUG == 1
INFO == 2
WARNING == 3
ERROR == 4
FATAL == 5
SILENT == 6

DefaultDepth == 4
DefaultMaxArrayLength == 100

CallLevels == TRACE..FATAL
Thresholds == TRACE..SILENT

\* LogLevel[level]: the reverse mapping of the numeric enum
LevelName(level) ==
  CASE level = TRACE -> "TRACE"
    [] level = DEBUG -> "DEBUG"
    [] level = INFO -> "INFO"
    [] level = WARNING -> "WARNING"
    [] level = ERROR -> "ERROR"
    [] level = FATAL -> "FATAL"
    [] level = SILENT -> "SILENT"
    [] OTHER -> "undefined"

----------------------------------------------------------------------------
(* Optional values: undefined is <<>>, a supplied value v is <<v>> *)

Undef == <<>>
Some(v) == <<v>>

\* a ?? b
Nullish(a, b) == IF a = Undef THEN b ELSE a[1]

\* Strings: '' is <<>>
EmptyStr == <<>>
Str(tok) == <<tok>>

\* truthiness of an optional string: undefined and '' are falsy
TruthyStr(o) == o # Undef /\ o[1] # EmptyStr

RECURSIVE Join(_, _)
\* parts.join(sep)
Join(parts, sep) ==
  IF parts = <<>> THEN EmptyStr
  ELSE IF Len(parts) = 1 THEN parts[1]
  ELSE parts[1] \o sep \o Join(Tail(parts), sep)

\* Argument values: strings and numbers
StrVal(s) == [ty |-> "string", s |-> s]
NumVal(s) == [ty |-> "number", s |-> s]

----------------------------------------------------------------------------
(* LogOptions and the constructor *)

NoOptions ==
  [level |-> Undef, namespace |-> Undef, colors |-> Undef,
   timestamp |-> Undef, depth |-> Undef, maxArrayLength |-> Undef]

\* options.timestamp === true ? 'iso' : options.timestamp || false
\* (also the body of setTimestamp); booleans are the tokens "true" and "false"
NormTimestamp(o) ==
  IF o = Some("true") THEN "iso"
  ELSE IF o = Undef \/ o = Some("false") THEN "false"
  ELSE o[1]

\* new Logger(options): the fields, given the two array objects of the
\* field initialisers
NewLogger(options, lsRef, mwRef) ==
  [logLevel |-> Nullish(options.level, DEBUG),
   namespace |-> options.namespace,
   colorsEnabled |-> Nullish(options.colors, TRUE),
   timestampFormat |-> NormTimestamp(options.timestamp),
   depth |-> Nullish(options.depth, DefaultDepth),
   maxArrayLength |-> Nullish(options.maxArrayLength, DefaultMaxArrayLength),
   logListeners |-> lsRef,
   middleware |-> mwRef]

----------------------------------------------------------------------------
(* Context Builder and formatting *)

\* createContext(level, args)
\* a faulty variant: the Context object of the previous call is used again,
\* with level, timestamp and args assigned
createContextReused(lg, level, args, clock) ==
  IF last.op = "log" /\ last.events # <<>>
    THEN [last.events[Len(last.events)].ctx EXCEPT !.level = level,
                                                   !.levelName = LevelName(level),
                                                   !.timestamp = clock,
                                                   !.args = args]
    ELSE [level |-> level, levelName |-> LevelName(level), timestamp |-> clock,
          args |-> args,
          namespace |-> IF TruthyStr(lg.namespace) THEN lg.namespace ELSE Undef,
          formattedMessage |-> Undef]

createContext(lg, level, args, clock) ==
  [level |-> level,
   levelName |-> LevelName(level),
   timestamp |-> clock,
   args |-> args,
   namespace |-> IF TruthyStr(lg.namespace) THEN lg.namespace ELSE Undef,
   formattedMessage |-> Undef]

\* formatTimestamp(date); a caller-supplied function is the mode "fn"
formatTimestamp(lg, date) ==
  IF lg.timestampFormat = "false" THEN EmptyStr
  ELSE IF lg.timestampFormat = "fn" THEN <<"fn", ToString(date)>>
  ELSE CASE lg.timestampFormat = "iso" -> <<"iso", ToString(date)>>
         [] lg.timestampFormat = "locale" -> <<"locale", ToString(date)>>
         [] lg.timestampFormat = "time" -> <<"time", ToString(date)>>
         [] lg.timestampFormat = "unix" -> <<ToString(date)>>
         [] OTHER -> <<"iso", ToString(date)>>

getColor(lg, level) ==
  IF ~lg.colorsEnabled THEN EmptyStr
  ELSE CASE level = TRACE -> <<"ESC[90m">>
         [] level = DEBUG -> <<"ESC[34m">>
         [] level = INFO -> <<"ESC[32m">>
         [] level = WARNING -> <<"ESC[33m">>
         [] level = ERROR -> <<"ESC[31m">>
         [] level = FATAL -> <<"ESC[35m">>
         [] OTHER -> EmptyStr

reset(lg) == IF lg.colorsEnabled THEN <<"ESC[0m">> ELSE EmptyStr

gray(lg, text) == IF lg.colorsEnabled THEN <<"ESC[90m">> \o text \o <<"ESC[0m">> ELSE text

\* inspectValue(value, options, 0) on the values of the model
inspectValue(value, depth, colors) ==
  IF 0 > depth THEN (IF colors THEN <<"ESC[36m", "[Object]", "ESC[0m">> ELSE <<"[Object]">>)
  ELSE IF value.ty = "string"
    THEN (IF colors THEN <<"ESC[32m", "'">> \o value.s \o <<"'", "ESC[0m">>
                    ELSE <<"'">> \o value.s \o <<"'">>)
    ELSE (IF colors THEN <<"ESC[33m">> \o value.s \o <<"ESC[0m">> ELSE value.s)

\* formatArgs(args, {depth, maxArrayLength, colors})
formatArgs(args, depth, colors) ==
  IF Len(args) = 0 THEN EmptyStr
  ELSE IF Len(args) = 1 /\ args[1].ty = "string" THEN args[1].s
  ELSE Join([k \in 1..Len(args) |->
               IF args[k].ty = "string" THEN args[k].s
               ELSE inspectValue(args[k], depth, colors)], <<" ">>)

\* formatMessage(ctx)
formatMessage(lg, ctx) ==
  LET tsPart == IF lg.timestampFormat # "false"
                  THEN <<gray(lg, <<"[">> \o formatTimestamp(lg, ctx.timestamp) \o <<"]">>)>>
                  ELSE <<>>
      nsPart == IF TruthyStr(ctx.namespace)
                  THEN <<gray(lg, <<"[">> \o ctx.namespace[1] \o <<"]">>)>>
                  ELSE <<>>
      lvPart == <<getColor(lg, ctx.level) \o <<"[", ctx.levelName, "]">> \o reset(lg)>>
      argPart == <<formatArgs(ctx.args, lg.depth, lg.colorsEnabled)>>
  IN Join(tsPart \o nsPart \o lvPart \o argPart, <<" ">>)

----------------------------------------------------------------------------
(* The heap of array objects.  A Logger holds references, so that sharing  *)
(* an array between two loggers is a state of the model.  An array no      *)
(* logger refers to is garbage: its slot is cleared and may be reused.     *)

NumArrays == 2 * MaxLoggers + 2

Referenced(lgs) ==
  {lgs[i].logListeners : i \in 1..Len(lgs)} \cup {lgs[i].middleware : i \in 1..Len(lgs)}

\* a reference no logger holds and that is not in `taken`
Fresh(lgs, taken) ==
  CHOOSE r \in (1..NumArrays) \ (Referenced(lgs) \cup taken) :
    \A q \in (1..NumArrays) \ (Referenced(lgs) \cup taken) : r <= q

Collect(lgs, h) == [r \in 1..NumArrays |-> IF r \in Referenced(lgs) THEN h[r] ELSE <<>>]

\* a faulty variant: the array object itself, not a copy
SpreadSameObject(h, src, fresh) == [ref |-> src, arrays |-> h]

\* [...src]: a new array object with the elements of src
Spread(h, src, fresh) == [ref |-> fresh, arrays |-> [h EXCEPT ![fresh] = h[src]]]

\* a faulty variant: only the first occurrence of x is left out
RECURSIVE FilterOutFirst(_, _)
FilterOutFirst(seq, x) ==
  IF seq = <<>> THEN <<>>
  ELSE IF Head(seq) = x THEN Tail(seq)
  ELSE <<Head(seq)>> \o FilterOutFirst(Tail(seq), x)

\* array.filter((l) => l !== x): the elements other than x, in order
RECURSIVE FilterOut(_, _)
FilterOut(seq, x) ==
  IF seq = <<>> THEN <<>>
  ELSE IF Head(seq) = x THEN FilterOut(Tail(seq), x)
  ELSE <<Head(seq)>> \o FilterOut(Tail(seq), x)

StagesOf(lgs, h, g) == h[lgs[g].middleware]
ListenersOf(lgs, h, g) == h[lgs[g].logListeners]

----------------------------------------------------------------------------
(* Stages (LogMiddleware).  A user stage is a closure; its body is a       *)
(* script of steps: "next" calls the continuation, "throw" raises,         *)
(* "appA"/"appB" are the body of suffixMiddleware('A'/'B').                *)

Script(s) ==
  CASE s = "pass" -> <<"next">>
    [] s = "halt" -> <<>>
    [] s = "throws" -> <<"throw">>
    [] s = "twice" -> <<"next", "next">>
    [] s = "passThrow" -> <<"next", "throw">>
    [] s = "suffixA" -> <<"appA", "next">>
    [] s = "suffixB" -> <<"appB", "next">>
    [] s = "json" -> <<"json", "next">>
    [] s = "fmtEmpty" -> <<"fmtEmpty", "next">>
    [] s \in {"redactLit", "redactRe", "redactReG", "redactBoth"} -> <<"redact", "next">>
    [] s = "toError" -> <<"lvlError", "next">>
    [] s = "toTrace" -> <<"lvlTrace", "next">>
    [] s = "setTrace" -> <<"setTrace", "next">>
    [] OTHER -> <<>>

ContinuingStages == {"pass", "suffixA", "suffixB"}

\* the stages that set ctx.formattedMessage: jsonMiddleware() and a user
\* stage that sets it to the empty string
FormatStages == {"json", "fmtEmpty"}

\* JSON.stringify of a string (the tokens of the model need no escaping)
JsonString(str) == <<"\"">> \o str \o <<"\"">>

\* a faulty variant: the level written as its number
JsonEntryLevelNumber(ctx) ==
  LET message == Join([k \in 1..Len(ctx.args) |-> ctx.args[k].s], <<" ">>)
  IN <<"{", "\"timestamp\":">> \o JsonString(<<"iso", ToString(ctx.timestamp)>>)
     \o <<",", "\"level\":">> \o <<ToString(ctx.level)>>
     \o (IF ctx.namespace # Undef
           THEN <<",", "\"namespace\":">> \o JsonString(ctx.namespace[1])
           ELSE <<>>)
     \o <<",", "\"message\":">> \o JsonString(message) \o <<"}">>

\* JSON.stringify(logEntry) of jsonMiddleware; an undefined namespace is left out
JsonEntry(ctx) ==
  LET message == Join([k \in 1..Len(ctx.args) |-> ctx.args[k].s], <<" ">>)
  IN <<"{", "\"timestamp\":">> \o JsonString(<<"iso", ToString(ctx.timestamp)>>)
     \o <<",", "\"level\":">> \o JsonString(<<ctx.levelName>>)
     \o (IF ctx.namespace # Undef
           THEN <<",", "\"namespace\":">> \o JsonString(ctx.namespace[1])
           ELSE <<>>)
     \o <<",", "\"message\":">> \o JsonString(message) \o <<"}">>

UserStages == ContinuingStages \cup {"halt", "throws", "twice", "passThrow"}

\* the stages made by batchMiddleware(options): "batch" with maxSize 3,
\* "batch1" with maxSize 1
BatchStages == {"batch", "batch1"}
BatchOptions(s) == IF s = "batch1" THEN [maxSize |-> 1, maxWait |-> 1]
                   ELSE [maxSize |-> 3, maxWait |-> 1]

\* The state of one closure of batchMiddleware.  batch: the buffered
\* Contexts, each named by its ordinal among the Contexts that entered the
\* stage; timer: the variable timer is not null; pending: the host holds a
\* timeout for flush that has neither fired nor been cleared; entered: the
\* number of Contexts that entered; throws: onFlush throws when called;
\* flushed: the arrays onFlush was called with, in order.
NewBatch ==
  [batch |-> <<>>, timer |-> FALSE, pending |-> FALSE, entered |-> 0,
   throws |-> FALSE, flushed |-> <<>>]

\* a faulty variant: flush leaves the batch as it is
FlushKeepsBatch(b) ==
  LET called == Len(b.batch) > 0
      b1 == IF called THEN [b EXCEPT !.flushed = Append(@, b.batch)] ELSE b
      b3 == IF b1.timer THEN [b1 EXCEPT !.timer = FALSE, !.pending = FALSE] ELSE b1
  IN IF called /\ b.throws THEN [b |-> b1, exc |-> TRUE] ELSE [b |-> b3, exc |-> FALSE]

\* flush(): the state of the closure after it, and whether onFlush threw
Flush(b) ==
  LET called == Len(b.batch) > 0
      \* onFlush([...batch])
      b1 == IF called THEN [b EXCEPT !.flushed = Append(@, b.batch)] ELSE b
      \* batch = []
      b2 == IF called THEN [b1 EXCEPT !.batch = <<>>] ELSE b1
      \* if (timer) { clearTimeout(timer); timer = null }
      b3 == IF b2.timer THEN [b2 EXCEPT !.timer = FALSE, !.pending = FALSE] ELSE b2
  IN IF called /\ b.throws THEN [b |-> b1, exc |-> TRUE] ELSE [b |-> b3, exc |-> FALSE]

\* user stages that assign ctx.level ("toError": ctx.level = LogLevel.ERROR,
\* "toTrace": ctx.level = LogLevel.TRACE) or call setLevel(LogLevel.TRACE) on
\* the logger they are registered on ("setTrace"), and then continue
LateStages == {"toError", "toTrace", "setTrace"}

\* the stages made by filterLevel(minLevel)
FilterStages == {"filterWarning", "filterError"}
MinLevel(s) == IF s = "filterError" THEN ERROR ELSE WARNING

\* the stages made by conditionalMiddleware(condition, middleware) with the
\* condition (ctx) => ctx.level >= LogLevel.ERROR and the inner stage InnerOf(s)
ConditionalStages == {"ifErrorSuffixA", "ifErrorHalt", "ifErrorTwice"}
Condition(s, ctx) == ctx.level >= ERROR
InnerOf(s) ==
  CASE s = "ifErrorSuffixA" -> "suffixA"
    [] s = "ifErrorHalt" -> "halt"
    [] s = "ifErrorTwice" -> "twice"
    [] OTHER -> "pass"

\* the stages made by throttleMiddleware(options): "throttle" with the options
\* ThrottleOptions, "throttle2" with ThrottleOptions2
ThrottleStages == {"throttle", "throttle2"}
ThrottleOptions == [limit |-> 1, interval |-> 2]
ThrottleOptions2 == [limit |-> 2, interval |-> 2]

\* const { limit, interval } = options
OptionsOf(s) == IF s = "throttle2" THEN ThrottleOptions2 ELSE ThrottleOptions

\* The patterns of redactMiddleware: a string, or a regular expression that
\* matches the string `lit`, with or without the flag g
Lit(lit) == [re |-> FALSE, g |-> FALSE, lit |-> lit]
Re(lit, g) == [re |-> TRUE, g |-> g, lit |-> lit]

\* the stages made by redactMiddleware(patterns) and their patterns:
\* ['s'], [/s/], [/s/g], ['sk', /k/g]
RedactStages == {"redactLit", "redactRe", "redactReG", "redactBoth"}

PatternsOf(s) ==
  CASE s = "redactLit" -> <<Lit(<<"s">>)>>
    [] s = "redactRe" -> <<Re(<<"s">>, FALSE)>>
    [] s = "redactReG" -> <<Re(<<"s">>, TRUE)>>
    [] s = "redactBoth" -> <<Lit(<<"s", "k">>), Re(<<"k">>, TRUE)>>
    [] OTHER -> <<>>

Placeholder == <<"[REDACTED]">>

\* str starts with lit
StartsWith(str, lit) == Len(lit) <= Len(str) /\ SubSeq(str, 1, Len(lit)) = lit

\* str.split(lit).join('[REDACTED]'), and str.replace(/lit/g, '[REDACTED]'):
\* every occurrence, from the left, without overlap (lit is not empty)
RECURSIVE ReplaceAll(_, _)
ReplaceAll(str, lit) ==
  IF str = <<>> THEN <<>>
  ELSE IF StartsWith(str, lit)
    THEN Placeholder \o ReplaceAll(SubSeq(str, Len(lit) + 1, Len(str)), lit)
    ELSE <<Head(str)>> \o ReplaceAll(Tail(str), lit)

\* str.replace(/lit/, '[REDACTED]'): the first occurrence only
RECURSIVE ReplaceFirst(_, _)
ReplaceFirst(str, lit) ==
  IF str = <<>> THEN <<>>
  ELSE IF StartsWith(str, lit)
    THEN Placeholder \o SubSeq(str, Len(lit) + 1, Len(str))
    ELSE <<Head(str)>> \o ReplaceFirst(Tail(str), lit)

\* for (const pattern of patterns) { result = ... }
RECURSIVE RedactString(_, _)
RedactString(str, patterns) ==
  IF patterns = <<>> THEN str
  ELSE LET pattern == Head(patterns)
           result == IF ~pattern.re \/ pattern.g THEN ReplaceAll(str, pattern.lit)
                     ELSE ReplaceFirst(str, pattern.lit)
       IN RedactString(result, Tail(patterns))

\* ctx.args.map((arg) => typeof arg === 'string' ? ... : arg)
RedactArgs(args, patterns) ==
  [k \in 1..Len(args) |->
     IF args[k].ty = "string" THEN StrVal(RedactString(args[k].s, patterns)) ELSE args[k]]

\* a faulty variant: the literal put first, as prefixMiddleware does
SuffixArgsInFront(args, suffix) == <<StrVal(suffix)>> \o args

\* suffixMiddleware(suffix): ctx.args = [...ctx.args, suffix]
SuffixArgs(args, suffix) == args \o <<StrVal(suffix)>>

\* Listeners (LogListener): "Lthrow" raises, the others return
Listeners == {"L1", "L2", "Lthrow"}
ListenerThrows(l) == l = "Lthrow"

----------------------------------------------------------------------------
(* One log call.  m is the machine state of the call: the Context, the     *)
(* closure variable index, the observed events, whether an exception is    *)
(* propagating, and the objects the call can write.                        *)

Ev(t, i, s, ch, text, ctx) == [t |-> t, i |-> i, s |-> s, ch |-> ch, text |-> text, ctx |-> ctx]

Emit(m, e) == [m EXCEPT !.events = Append(@, e)]

\* a faulty variant: the gate with > for >=
PassesStrictlyAbove(lg, ctx) == ctx.level > lg.logLevel /\ ctx.level < SILENT

\* the gate of output(): ctx.level >= this.logLevel && ctx.level < LogLevel.SILENT
Passes(lg, ctx) == ctx.level >= lg.logLevel /\ ctx.level < SILENT

\* a faulty variant: warnings routed with the errors
ChannelWarningAsError(level) ==
  IF level >= WARNING THEN "error"
  ELSE "log"

\* the console method output() picks
Channel(level) ==
  IF level >= ERROR THEN "error"
  ELSE IF level = WARNING THEN "warn"
  ELSE "log"

\* a faulty variant: ctx.formattedMessage || this.formatMessage(ctx)
MessageWithOr(lg, ctx) ==
  IF TruthyStr(ctx.formattedMessage) THEN ctx.formattedMessage[1] ELSE formatMessage(lg, ctx)

\* ctx.formattedMessage ?? this.formatMessage(ctx)
Message(lg, ctx) == Nullish(ctx.formattedMessage, formatMessage(lg, ctx))

\* Listeners that change the listener list of the logger they are called
\* by: "Lrem2" calls removeListener(L2), "Ladd2" calls addListener(L2)
InflightListeners == {"L2", "Lrem2", "Ladd2"}

\* a faulty variant: the listener is taken out of the array object in place
removeListenerInPlace(m, r, l) ==
  [m EXCEPT !.arrays[m.loggers[m.g].logListeners] = FilterOut(@, l)]

\* removeListener(l) called while forEach runs on the array object r
removeListenerDuring(m, r, l) ==
  LET fresh == Fresh(m.loggers, {r})
  IN [m EXCEPT !.arrays[fresh] = FilterOut(m.arrays[m.loggers[m.g].logListeners], l),
               !.loggers[m.g].logListeners = fresh]

\* addListener(l) called while forEach runs
addListenerDuring(m, l) ==
  [m EXCEPT !.arrays[m.loggers[m.g].logListeners] = Append(@, l)]

\* the body of the listener l
ListenerBody(l, r, m) ==
  CASE l = "Lrem2" -> removeListenerDuring(m, r, "L2")
    [] l = "Ladd2" -> addListenerDuring(m, "L2")
    [] OTHER -> m

RECURSIVE FanOut(_, _, _, _)
\* this.logListeners.forEach((listener) => listener(ctx)) on the array object r,
\* from position k to the length len read when forEach began
FanOut(r, k, len, m) ==
  IF k > len \/ k > Len(m.arrays[r]) THEN m
  ELSE LET l == m.arrays[r][k]
           m1 == Emit(m, Ev("listener", k, l, "", EmptyStr, m.ctx))
       IN IF ListenerThrows(l)
            THEN [Emit(m1, Ev("throw", 0, l, "", EmptyStr, m.ctx)) EXCEPT !.exc = TRUE]
            ELSE FanOut(r, k + 1, len, ListenerBody(l, r, m1))

\* output(ctx)
Output(g, m) ==
  LET lg == m.loggers[g]
  IN IF Passes(lg, m.ctx)
       THEN LET message == Message(lg, m.ctx)
                m1 == Emit(m, Ev("out", 0, "", Channel(m.ctx.level), message, m.ctx))
            IN FanOut(lg.logListeners, 1, Len(m.arrays[lg.logListeners]), m1)
       ELSE m

\* the key of throttleMiddleware: `${ctx.level}:${ctx.args[0]}`
ThrottleKey(ctx) ==
  <<ToString(ctx.level), ":">> \o (IF Len(ctx.args) = 0 THEN <<"undefined">> ELSE ctx.args[1].s)

RECURSIVE CallNext(_, _), RunOps(_, _, _, _), RunStage(_, _, _, _)

\* a faulty variant: only a level above minLevel continues
MeetsMinLevelStrictly(level, minLevel) == level > minLevel

\* ctx.level >= minLevel
MeetsMinLevel(level, minLevel) == level >= minLevel

\* the body of the closure filterLevel returns
FilterLevel(g, s, pos, m) ==
  IF MeetsMinLevel(m.ctx.level, MinLevel(s))
    THEN CallNext(g, Emit(m, Ev("next", pos, s, "", EmptyStr, m.ctx)))
    ELSE m

\* the body of the closure batchMiddleware returns
Batch(g, s, pos, m) ==
  LET b0 == m.batches[s]
      b1 == [b0 EXCEPT !.batch = Append(@, b0.entered + 1), !.entered = @ + 1]
  IN IF Len(b1.batch) >= BatchOptions(s).maxSize
       THEN LET F == Flush(b1)
                m1 == [m EXCEPT !.batches[s] = F.b]
            IN IF F.exc
                 THEN [Emit(m1, Ev("throw", pos, s, "", EmptyStr, m.ctx)) EXCEPT !.exc = TRUE]
                 ELSE CallNext(g, Emit(m1, Ev("next", pos, s, "", EmptyStr, m.ctx)))
       ELSE LET b2 == IF ~b1.timer THEN [b1 EXCEPT !.timer = TRUE, !.pending = TRUE] ELSE b1
                m1 == [m EXCEPT !.batches[s] = b2]
            IN CallNext(g, Emit(m1, Ev("next", pos, s, "", EmptyStr, m.ctx)))

\* a faulty variant: the inner stage is called whatever the condition says
ConditionalAlwaysInner(g, s, pos, m) ==
  RunStage(g, InnerOf(s), pos, Emit(m, Ev("inner", pos, InnerOf(s), "", EmptyStr, m.ctx)))

\* the body of the closure conditionalMiddleware returns
Conditional(g, s, pos, m) ==
  IF Condition(s, m.ctx)
    THEN RunStage(g, InnerOf(s), pos, Emit(m, Ev("inner", pos, InnerOf(s), "", EmptyStr, m.ctx)))
    ELSE CallNext(g, Emit(m, Ev("next", pos, s, "", EmptyStr, m.ctx)))

\* a faulty variant: the window is over only after resetAt
WindowOverStrictly(clock, resetAt) == clock > resetAt

\* now >= entry.resetAt
WindowOver(clock, resetAt) == clock >= resetAt

\* the body of the closure throttleMiddleware returns
Throttle(g, s, pos, m) ==
  LET key == ThrottleKey(m.ctx)
      map == m.counts[s]
      \* const now = Date.now()  (m.clock)
      admit1 == key \notin DOMAIN map \/ WindowOver(m.clock, map[key].resetAt)
      admit2 == ~admit1 /\ map[key].count < OptionsOf(s).limit
      map1 == IF admit1
                THEN (key :> [count |-> 1, resetAt |-> m.clock + OptionsOf(s).interval]) @@ map
              ELSE IF admit2 THEN [map EXCEPT ![key].count = @ + 1]
              ELSE map
      m1 == [m EXCEPT !.counts[s] = map1]
  IN IF admit1 \/ admit2
       THEN CallNext(g, Emit(m1, Ev("next", pos, s, "", EmptyStr, m1.ctx)))
       ELSE m1

\* the body of a user stage, step by step; an exception ends it
RunOps(g, ops, pos, m) ==
  IF ops = <<>> THEN m
  ELSE LET op == Head(ops)
           s == m.arrays[m.loggers[g].middleware][pos]
       IN CASE op = "next" ->
                 LET m1 == CallNext(g, Emit(m, Ev("next", pos, s, "", EmptyStr, m.ctx)))
                 IN IF m1.exc THEN m1 ELSE RunOps(g, Tail(ops), pos, m1)
            [] op = "throw" ->
                 [Emit(m, Ev("throw", pos, s, "", EmptyStr, m.ctx)) EXCEPT !.exc = TRUE]
            [] op = "appA" ->
                 RunOps(g, Tail(ops), pos, [m EXCEPT !.ctx.args = SuffixArgs(@, <<"A">>)])
            [] op = "appB" ->
                 RunOps(g, Tail(ops), pos, [m EXCEPT !.ctx.args = SuffixArgs(@, <<"B">>)])
            [] op = "redact" ->
                 RunOps(g, Tail(ops), pos, [m EXCEPT !.ctx.args = RedactArgs(@, PatternsOf(s))])
            [] op = "json" ->
                 RunOps(g, Tail(ops), pos, [m EXCEPT !.ctx.formattedMessage = Some(JsonEntry(m.ctx))])
            [] op = "fmtEmpty" ->
                 RunOps(g, Tail(ops), pos, [m EXCEPT !.ctx.formattedMessage = Some(EmptyStr)])
            [] op = "lvlError" ->
                 RunOps(g, Tail(ops), pos, [m EXCEPT !.ctx.level = ERROR])
            [] op = "lvlTrace" ->
                 RunOps(g, Tail(ops), pos, [m EXCEPT !.ctx.level = TRACE])
            [] op = "setTrace" ->
                 RunOps(g, Tail(ops), pos, [m EXCEPT !.loggers[g].logLevel = TRACE])
            [] OTHER -> RunOps(g, Tail(ops), pos, m)

\* mw(ctx, next)
RunStage(g, s, pos, m) ==
  IF s \in ThrottleStages THEN Throttle(g, s, pos, m)
  ELSE IF s \in FilterStages THEN FilterLevel(g, s, pos, m)
  ELSE IF s \in BatchStages THEN Batch(g, s, pos, m)
  ELSE IF s \in ConditionalStages THEN Conditional(g, s, pos, m)
  ELSE RunOps(g, Script(s), pos, m)

\* the stage next() picks and the value of index after index++
Advance(index) == index + 1

\* a faulty variant: the catch block reports nothing
CallNextSwallows(g, m) ==
  LET mw == m.arrays[m.loggers[g].middleware]
  IN IF m.index < Len(mw)
       THEN LET pos == m.index + 1
                s == mw[pos]
                m1 == Emit([m EXCEPT !.index = Advance(@)], Ev("enter", pos, s, "", EmptyStr, m.ctx))
                m2 == RunStage(g, s, pos, m1)
            IN [m2 EXCEPT !.exc = FALSE]
       ELSE Output(g, m)

\* const next = () => { ... }
CallNext(g, m) ==
  LET mw == m.arrays[m.loggers[g].middleware]
  IN IF m.index < Len(mw)
       THEN LET pos == m.index + 1
                s == mw[pos]
                m1 == Emit([m EXCEPT !.index = Advance(@)], Ev("enter", pos, s, "", EmptyStr, m.ctx))
                m2 == RunStage(g, s, pos, m1)
            IN IF m2.exc
                 THEN [Emit(m2, Ev("report", pos, s, "error", <<"Middleware error:">>, m2.ctx))
                         EXCEPT !.exc = FALSE]
                 ELSE m2
       ELSE Output(g, m)

\* history: the calls in `events` that a throttle stage let through, added to
\* adm with the time of the call and their ordinal among the calls with the
\* same stage and key
RECURSIVE Admit(_, _, _)
Admit(events, adm, clock) ==
  IF events = <<>> THEN adm
  ELSE LET e == Head(events)
           key == ThrottleKey(e.ctx)
           n == Cardinality({a \in adm : a.s = e.s /\ a.key = key}) + 1
       IN IF e.t = "next" /\ e.s \in ThrottleStages
            THEN Admit(Tail(events), adm \cup {[s |-> e.s, key |-> key, t |-> clock, n |-> n]}, clock)
            ELSE Admit(Tail(events), adm, clock)

\* a faulty variant: the threshold is tested before the chain is started
logWithMiddlewareGateFirst(g, level, args, lgs, h, cnt, clock) ==
  LET m0 == [ctx |-> createContext(lgs[g], level, args, clock), index |-> 0,
             events |-> <<>>, exc |-> FALSE, clock |-> clock, g |-> g,
             loggers |-> lgs, arrays |-> h, counts |-> cnt, batches |-> batches]
  IN IF ~Passes(lgs[g], m0.ctx) THEN m0
     ELSE IF Len(h[lgs[g].middleware]) = 0 THEN Output(g, m0) ELSE CallNext(g, m0)

\* logWithMiddleware(level, args)
logWithMiddleware(g, level, args, lgs, h, cnt, clock) ==
  LET m0 == [ctx |-> createContext(lgs[g], level, args, clock), index |-> 0,
             events |-> <<>>, exc |-> FALSE, clock |-> clock, g |-> g,
             loggers |-> lgs, arrays |-> h, counts |-> cnt, batches |-> batches]
  IN IF Len(h[lgs[g].middleware]) = 0 THEN Output(g, m0) ELSE CallNext(g, m0)

----------------------------------------------------------------------------
(* Operations of a Logger *)

NoLast ==
  [op |-> "new", lg |-> 1, level |-> TRACE, args |-> <<>>, T |-> TRACE,
   mw |-> <<>>, ls |-> <<>>, events |-> <<>>, outcome |-> "",
   seg |-> EmptyStr, opts |-> NoOptions]

\* trace() .. fatal(): one call of logWithMiddleware, run to completion
Log(g, level, args) ==
  LET R == logWithMiddleware(g, level, args, loggers, arrays, counts, now)
  IN /\ loggers' = R.loggers
     /\ arrays' = Collect(R.loggers, R.arrays)
     /\ counts' = R.counts
     /\ last' = [NoLast EXCEPT !.op = "log", !.lg = g, !.level = level, !.args = args,
                               !.T = loggers[g].logLevel,
                               !.mw = StagesOf(loggers, arrays, g),
                               !.ls = ListenersOf(loggers, arrays, g),
                               !.events = R.events,
                               !.outcome = IF R.exc THEN "threw" ELSE "returned"]
     /\ admitted' = Admit(R.events, admitted, now)
     /\ batches' = R.batches
     /\ UNCHANGED <<now, path>>

\* use(middleware): this.middleware.push(middleware)
Use(g, s, max) ==
  /\ Len(StagesOf(loggers, arrays, g)) < max
  /\ arrays' = [arrays EXCEPT ![loggers[g].middleware] = Append(@, s)]
  /\ last' = [NoLast EXCEPT !.op = "use", !.lg = g]
  /\ UNCHANGED <<loggers, counts, now, path, admitted, batches>>

\* addListener(listener): this.logListeners.push(listener)
AddListener(g, l, max) ==
  /\ Len(ListenersOf(loggers, arrays, g)) < max
  /\ arrays' = [arrays EXCEPT ![loggers[g].logListeners] = Append(@, l)]
  /\ last' = [NoLast EXCEPT !.op = "addListener", !.lg = g, !.ls = <<l>>]
  /\ UNCHANGED <<loggers, counts, now, path, admitted, batches>>

\* removeListener(listener): this.logListeners = this.logListeners.filter(...)
RemoveListener(g, l) ==
  LET r == Fresh(loggers, {})
      h == [arrays EXCEPT ![r] = FilterOut(ListenersOf(loggers, arrays, g), l)]
      lgs == [loggers EXCEPT ![g].logListeners = r]
  IN /\ loggers' = lgs
     /\ arrays' = Collect(lgs, h)
     /\ last' = [NoLast EXCEPT !.op = "removeListener", !.lg = g, !.ls = <<l>>,
                               !.outcome = IF \E k \in 1..Len(ListenersOf(loggers, arrays, g)) :
                                                 ListenersOf(loggers, arrays, g)[k] = l
                                             THEN "removed" ELSE "absent"]
     /\ UNCHANGED <<counts, now, path, admitted, batches>>

\* setLevel(level)
SetLevel(g, level) ==
  /\ loggers' = [loggers EXCEPT ![g].logLevel = level]
  /\ last' = [NoLast EXCEPT !.op = "setLevel", !.lg = g, !.T = level]
  /\ UNCHANGED <<arrays, counts, now, path, admitted, batches>>

\* a faulty variant: the highest severity for the sentinel
SilentAtFatal(g) ==
  /\ loggers' = [loggers EXCEPT ![g].logLevel = FATAL]
  /\ last' = [NoLast EXCEPT !.op = "silent", !.lg = g, !.T = FATAL]
  /\ UNCHANGED <<arrays, counts, now, path, admitted, batches>>

\* silent()
Silent(g) ==
  /\ loggers' = [loggers EXCEPT ![g].logLevel = SILENT]
  /\ last' = [NoLast EXCEPT !.op = "silent", !.lg = g, !.T = SILENT]
  /\ UNCHANGED <<arrays, counts, now, path, admitted, batches>>

\* a faulty variant: the template without the test of this.namespace
ChildNamespaceAlwaysJoined(parentNs, namespace) ==
  (IF parentNs = Undef THEN <<"undefined">> ELSE parentNs[1]) \o <<":">> \o namespace

\* the namespace child() gives the child:
\* this.namespace ? `${this.namespace}:${namespace}` : namespace
ChildNamespace(parentNs, namespace) ==
  IF TruthyStr(parentNs) THEN parentNs[1] \o <<":">> \o namespace ELSE namespace

\* a || b on an optional number: undefined and 0 are falsy
OrElse(a, b) == IF a = Undef \/ a = Some(0) THEN b ELSE a[1]

\* a || b on an optional boolean: undefined and false are falsy
OrElseBool(a, b) == IF a = Undef \/ a = Some(FALSE) THEN b ELSE a[1]

\* a faulty variant: the overrides taken with || (as the legacy constructor does)
ChildOptionsWithOr(parent, childNamespace, options) ==
  [level |-> Some(OrElse(options.level, parent.logLevel)),
   namespace |-> Some(childNamespace),
   colors |-> Some(OrElseBool(options.colors, parent.colorsEnabled)),
   depth |-> Some(OrElse(options.depth, parent.depth)),
   maxArrayLength |-> Some(OrElse(options.maxArrayLength, parent.maxArrayLength)),
   timestamp |-> IF options.timestamp # Undef THEN options.timestamp
                 ELSE IF parent.timestampFormat # "false" THEN Some(parent.timestampFormat)
                 ELSE Undef]

\* the childOptions child() builds from the parent's fields and the overrides
ChildOptions(parent, childNamespace, options) ==
  [level |-> Some(Nullish(options.level, parent.logLevel)),
   namespace |-> Some(childNamespace),
   colors |-> Some(Nullish(options.colors, parent.colorsEnabled)),
   depth |-> Some(Nullish(options.depth, parent.depth)),
   maxArrayLength |-> Some(Nullish(options.maxArrayLength, parent.maxArrayLength)),
   timestamp |-> IF options.timestamp # Undef THEN options.timestamp
                 ELSE IF parent.timestampFormat # "false" THEN Some(parent.timestampFormat)
                 ELSE Undef]

\* child(namespace, options)
Child(g, namespace, options, max) ==
  LET parent == loggers[g]
      c == Len(loggers) + 1
      \* const child = new Logger(childOptions), with its two empty arrays
      r1 == Fresh(loggers, {})
      r2 == Fresh(loggers, {r1})
      lgs0 == Append(loggers,
                NewLogger(ChildOptions(parent, ChildNamespace(parent.namespace, namespace), options),
                          r1, r2))
      h0 == [arrays EXCEPT ![r1] = <<>>, ![r2] = <<>>]
      \* child.middleware = [...this.middleware]
      c1 == Spread(h0, parent.middleware, Fresh(lgs0, {}))
      lgs1 == [lgs0 EXCEPT ![c].middleware = c1.ref]
      \* child.logListeners = [...this.logListeners]
      c2 == Spread(c1.arrays, parent.logListeners, Fresh(lgs1, {}))
      lgs2 == [lgs1 EXCEPT ![c].logListeners = c2.ref]
  IN /\ Len(loggers) < max
     /\ loggers' = lgs2
     /\ arrays' = Collect(lgs2, c2.arrays)
     /\ path' = Append(path, [parent |-> g, root |-> path[g].root,
                              segs |-> Append(path[g].segs, namespace)])
     /\ last' = [NoLast EXCEPT !.op = "child", !.lg = g, !.seg = namespace, !.opts = options]
     /\ UNCHANGED <<counts, now, admitted, batches>>

\* setTimestamp(format)
SetTimestamp(g, format) ==
  /\ loggers' = [loggers EXCEPT ![g].timestampFormat = NormTimestamp(Some(format))]
  /\ last' = [NoLast EXCEPT !.op = "set", !.lg = g]
  /\ UNCHANGED <<arrays, counts, now, path, admitted, batches>>

\* enableColors()
EnableColors(g) ==
  /\ loggers' = [loggers EXCEPT ![g].colorsEnabled = TRUE]
  /\ last' = [NoLast EXCEPT !.op = "set", !.lg = g]
  /\ UNCHANGED <<arrays, counts, now, path, admitted, batches>>

\* disableColors()
DisableColors(g) ==
  /\ loggers' = [loggers EXCEPT ![g].colorsEnabled = FALSE]
  /\ last' = [NoLast EXCEPT !.op = "set", !.lg = g]
  /\ UNCHANGED <<arrays, counts, now, path, admitted, batches>>

\* setDepth(depth)
SetDepth(g, depth) ==
  /\ loggers' = [loggers EXCEPT ![g].depth = depth]
  /\ last' = [NoLast EXCEPT !.op = "set", !.lg = g]
  /\ UNCHANGED <<arrays, counts, now, path, admitted, batches>>

\* the clock advances between calls
Tick ==
  /\ now < MaxTime
  /\ now' = now + 1
  /\ last' = [NoLast EXCEPT !.op = "tick"]
  /\ UNCHANGED <<loggers, arrays, counts, path, admitted, batches>>

\* the host runs the timeout of the stage s: flush() as the callback of
\* setTimeout; an exception of onFlush ends the callback
TimerFires(s) ==
  LET F == Flush([batches[s] EXCEPT !.pending = FALSE])
  IN /\ batches[s].pending
     /\ batches' = [batches EXCEPT ![s] = F.b]
     /\ last' = [NoLast EXCEPT !.op = "timer", !.mw = <<s>>,
                               !.outcome = IF F.exc THEN "threw" ELSE "returned"]
     /\ UNCHANGED <<loggers, arrays, counts, now, path, admitted>>

\* the environment: from now on onFlush of the stage s throws (b) or returns
OnFlushThrows(s, b) ==
  /\ batches[s].throws # b
  /\ batches' = [batches EXCEPT ![s].throws = b]
  /\ last' = [NoLast EXCEPT !.op = "onFlush", !.mw = <<s>>]
  /\ UNCHANGED <<loggers, arrays, counts, now, path, admitted>>

----------------------------------------------------------------------------
(* Construction *)

InitWith(options) ==
  /\ loggers = <<NewLogger(options, 1, 2)>>
  /\ arrays = [r \in 1..NumArrays |-> <<>>]
  /\ counts = [s \in ThrottleStages |-> <<>>]
  /\ now = 0
  /\ path = <<[parent |-> 0, root |-> options.namespace, segs |-> <<>>]>>
  /\ admitted = {}
  /\ batches = [s \in BatchStages |-> NewBatch]
  /\ last = [NoLast EXCEPT !.opts = options]

\* the arguments of the log calls: one string; a string and a number
CallArgs == {<<StrVal(<<"m">>)>>, <<StrVal(<<"m">>), NumVal(<<"7">>)>>}

----------------------------------------------------------------------------
(* Spec: the middleware chain of one logger.  The logger is built with the *)
(* default options; stages of every kind are registered and calls made     *)
(* below, at and above the threshold.                                      *)

ChainStages == UserStages \ {"pass"}

Init == InitWith(NoOptions)

Next ==
  \/ \E s \in ChainStages : Use(1, s, MaxStages)
  \/ \E l \in {"L1", "Lthrow"} : AddListener(1, l, MaxChainListeners)
  \/ \E level \in {TRACE, INFO, ERROR}, args \in CallArgs : Log(1, level, args)

Spec == Init /\ [][Next]_vars

----------------------------------------------------------------------------
(* SpecGate: the emission gate of one logger whose stages all continue:    *)
(* every threshold, set by the constructor or by setLevel / silent, and    *)
(* every call level.                                                       *)

RootLevels == {Undef} \cup {Some(T) : T \in Thresholds}

InitGate == \E lv \in RootLevels : InitWith([NoOptions EXCEPT !.level = lv])

NextGate ==
  \/ \E s \in {"pass", "suffixA"} : Use(1, s, MaxGateStages)
  \/ \E l \in {"L1", "Lthrow"} : AddListener(1, l, MaxListeners)
  \/ \E l \in {"L1", "Lthrow"} : RemoveListener(1, l)
  \/ \E T \in Thresholds : SetLevel(1, T)
  \/ Silent(1)
  \/ \E level \in CallLevels, args \in CallArgs : Log(1, level, args)

SpecGate == InitGate /\ [][NextGate]_vars

----------------------------------------------------------------------------
(* SpecNames: namespaces over chains of child() calls.  The root has no    *)
(* namespace, the empty one or 'app'; segments may be empty.               *)

Segments == {EmptyStr, Str("db"), Str("pool")}

RootNamespaces == {Undef, Some(EmptyStr), Some(Str("app"))}

InitNames == \E ns \in RootNamespaces : InitWith([NoOptions EXCEPT !.namespace = ns])

NextNames ==
  \/ \E g \in 1..Len(loggers), seg \in Segments : Child(g, seg, NoOptions, MaxLoggers)
  \/ \E g \in 1..Len(loggers), args \in CallArgs : Log(g, INFO, args)

SpecNames == InitNames /\ [][NextNames]_vars

----------------------------------------------------------------------------
(* SpecSettings: the settings a child starts with, and the setters of      *)
(* parent and child afterwards.                                            *)

\* the overrides child() is called with: none, every one falsy, some truthy
Overrides ==
  {NoOptions,
   [NoOptions EXCEPT !.level = Some(TRACE), !.colors = Some(FALSE),
                     !.timestamp = Some("false"), !.depth = Some(0),
                     !.maxArrayLength = Some(0)],
   [NoOptions EXCEPT !.timestamp = Some("true"), !.colors = Some(TRUE)]}

InitSettings == InitWith(NoOptions)

NextSettings ==
  \/ \E g \in 1..Len(loggers), o \in Overrides : Child(g, Str("c"), o, MaxFamily)
  \/ \E g \in 1..Len(loggers) : SetLevel(g, TRACE)
  \/ \E g \in 1..Len(loggers) : SetTimestamp(g, "unix")
  \/ \E g \in 1..Len(loggers) : EnableColors(g)
  \/ \E g \in 1..Len(loggers) : DisableColors(g)
  \/ \E g \in 1..Len(loggers) : SetDepth(g, 0)

SpecSettings == InitSettings /\ [][NextSettings]_vars

----------------------------------------------------------------------------
(* SpecSnap: the stage and listener arrays of parent and child.            *)

NextSnap ==
  \/ \E g \in 1..Len(loggers) : Child(g, Str("c"), NoOptions, MaxFamily)
  \/ \E g \in 1..Len(loggers) : Use(g, "pass", MaxSnapStages)
  \/ \E g \in 1..Len(loggers) : AddListener(g, "L1", MaxSnapListeners)
  \/ \E g \in 1..Len(loggers) : RemoveListener(g, "L1")

SpecSnap == InitSettings /\ [][NextSnap]_vars

----------------------------------------------------------------------------
(* SpecShared: parent and child with an inherited stateful stage.          *)

SharedArgs == {<<StrVal(<<"x">>)>>, <<StrVal(<<"y">>)>>}

NextShared ==
  \/ \E g \in 1..Len(loggers) : Child(g, Str("c"), NoOptions, MaxFamily)
  \/ \E g \in 1..Len(loggers), s \in {"pass", "throttle"} : Use(g, s, MaxSnapStages)
  \/ \E g \in 1..Len(loggers), args \in SharedArgs : Log(g, INFO, args)
  \/ Tick

SpecShared == InitSettings /\ [][NextShared]_vars

----------------------------------------------------------------------------
(* Reading the events of the last log call *)

Events == last.events

Count(t) == Cardinality({k \in 1..Len(Events) : Events[k].t = t})

\* positions of the events of kind t about stage position p
At(t, p) == {k \in 1..Len(Events) : Events[k].t = t /\ Events[k].i = p}

\* every stage of the sequence calls its continuation once and does not throw
AllContinue(mw) == \A k \in 1..Len(mw) : mw[k] \in ContinuingStages

\* the stage at position p was invoked and returned without calling its
\* continuation and without throwing
Halted(p) == At("enter", p) # {} /\ At("next", p) = {} /\ At("throw", p) = {}

----------------------------------------------------------------------------
(* C1 *)

\* C1: a threshold T given to the constructor (default DEBUG) or to setLevel
\* becomes the logger's threshold, T = TRACE = 0 included; and a call at level
\* L on a logger whose stages all continue writes exactly one message if
\* L >= T and T is not SILENT, and otherwise writes nothing and invokes no
\* listener.
C1_EmitsIffAtOrAboveThreshold ==
  /\ last.op = "new" =>
       loggers[1].logLevel = (IF last.opts.level = Undef THEN DEBUG ELSE last.opts.level[1])
  /\ last.op = "setLevel" => loggers[last.lg].logLevel = last.T
  /\ (last.op = "log" /\ AllContinue(last.mw)) =>
       /\ Count("out") = (IF last.level >= last.T /\ last.T # SILENT THEN 1 ELSE 0)
       /\ Count("out") = 0 => Count("listener") = 0

\* a call at TRACE on a logger with threshold TRACE, a stage and a listener
\* was emitted and the listener invoked
C1_Witness ==
  /\ last.op = "log" /\ last.level = TRACE /\ last.T = TRACE
  /\ Len(last.mw) > 0 /\ AllContinue(last.mw)
  /\ Count("out") = 1 /\ Count("listener") > 0

----------------------------------------------------------------------------
(* C2 *)

\* C2 (as claimed): if a stage that is reached returns without invoking its
\* continuation and without throwing, no later stage is invoked, no message
\* is written and no listener is invoked.
C2_HaltSuppressesAll ==
  last.op = "log" =>
    \A p \in 1..Len(last.mw) :
      Halted(p) =>
        /\ \A q \in (p + 1)..Len(last.mw) : At("enter", q) = {}
        /\ Count("out") = 0
        /\ Count("listener") = 0

----------------------------------------------------------------------------
(* C3 *)

\* the literals the stages of mw append, in registration order
RECURSIVE Literals(_)
Literals(mw) ==
  IF mw = <<>> THEN <<>>
  ELSE (IF Head(mw) = "suffixA" THEN <<StrVal(<<"A">>)>>
        ELSE IF Head(mw) = "suffixB" THEN <<StrVal(<<"B">>)>>
        ELSE <<>>) \o Literals(Tail(mw))

\* the "enter" events in order
EnterPositions == SelectSeq(Events, LAMBDA e : e.t = "enter")

\* C3: the stages are invoked in registration order; the Context a stage had
\* when it called its continuation is the Context the next stage, or the
\* emission, sees; the first continuation call of stage p enters stage p+1;
\* and when all stages continue the emitted text is the formatting of the
\* call's args followed by the stages' literals in registration order.
C3_OrderAndVisibility ==
  last.op = "log" =>
    /\ \A k \in 1..Len(EnterPositions) :
         /\ EnterPositions[k].s = last.mw[EnterPositions[k].i]
         /\ k > 1 => EnterPositions[k - 1].i < EnterPositions[k].i
    /\ \A k \in 1..Len(Events) :
         Events[k].t = "next" =>
           /\ (k < Len(Events) /\ Events[k + 1].t \in {"enter", "out"}) =>
                Events[k + 1].ctx = Events[k].ctx
           /\ (Events[k].i < Len(last.mw) /\ \A j \in At("next", Events[k].i) : j >= k) =>
                /\ k < Len(Events)
                /\ Events[k + 1].t = "enter"
                /\ Events[k + 1].i = Events[k].i + 1
    /\ (AllContinue(last.mw) /\ last.level >= last.T) =>
         \E k \in 1..Len(Events) :
           /\ Events[k].t = "out"
           /\ Events[k].ctx.args = last.args \o Literals(last.mw)
           /\ Events[k].text =
                formatMessage(loggers[last.lg],
                              [createContext(loggers[last.lg], last.level, last.args, now)
                                 EXCEPT !.args = last.args \o Literals(last.mw)])

\* two stages that append A and then B were run and the message written
\* carries m, A, B in that order
C3_Witness ==
  /\ last.op = "log" /\ last.mw = <<"suffixA", "suffixB">>
  /\ \E k \in 1..Len(Events) :
       /\ Events[k].t = "out"
       /\ Events[k].ctx.args = <<StrVal(<<"m">>), StrVal(<<"A">>), StrVal(<<"B">>)>>

----------------------------------------------------------------------------
(* C4 *)

\* C4 (as claimed): when a stage throws, the log call returns normally, the
\* error is reported on the error channel, and no stage positioned after
\* the failing stage is invoked after the throw.
C4_ThrowHaltsChain ==
  last.op = "log" =>
    \A k \in 1..Len(Events) :
      (Events[k].t = "throw" /\ Events[k].i > 0) =>
        /\ last.outcome = "returned"
        /\ k < Len(Events)
        /\ Events[k + 1].t = "report" /\ Events[k + 1].ch = "error"
        /\ \A j \in (k + 1)..Len(Events) :
             ~(Events[j].t = "enter" /\ Events[j].i > Events[k].i)

----------------------------------------------------------------------------
(* C5 *)

\* C5 (as claimed): when a stage throws, before or after it invoked its
\* continuation, the call writes no message and notifies no listener.
C5_ThrowMeansNoOutput ==
  last.op = "log" =>
    ((\E k \in 1..Len(Events) : Events[k].t = "throw" /\ Events[k].i > 0) =>
       /\ Count("out") = 0
       /\ Count("listener") = 0)

----------------------------------------------------------------------------
(* C6 *)

\* C6 (as claimed): each stage is invoked at most once, the message is
\* emitted at most once, and every continuation call of the stage at
\* position p transfers control to position p + 1 (the next stage, or the
\* emission gate when p is the last position).
C6_StrictSinglePass ==
  last.op = "log" =>
    /\ \A p \in 1..Len(last.mw) : Cardinality(At("enter", p)) <= 1
    /\ Count("out") <= 1
    /\ \A k \in 1..Len(Events) :
         (Events[k].t = "next" /\ Events[k].i < Len(last.mw)) =>
           /\ k < Len(Events)
           /\ Events[k + 1].t = "enter"
           /\ Events[k + 1].i = Events[k].i + 1

----------------------------------------------------------------------------
(* C7 *)

\* C7: child() gives the child a stage sequence and a listener list equal to
\* the parent's at the moment of the call; and use / addListener /
\* removeListener on one logger leave the stage sequence and the listener
\* list of every other logger unchanged.
C7_SnapshotIsolation ==
  [][/\ last'.op = "child" =>
          /\ StagesOf(loggers', arrays', Len(loggers')) = StagesOf(loggers, arrays, last'.lg)
          /\ ListenersOf(loggers', arrays', Len(loggers')) = ListenersOf(loggers, arrays, last'.lg)
     /\ last'.op \in {"use", "addListener", "removeListener"} =>
          \A g \in 1..Len(loggers) :
            g # last'.lg =>
              /\ StagesOf(loggers', arrays', g) = StagesOf(loggers, arrays, g)
              /\ ListenersOf(loggers', arrays', g) = ListenersOf(loggers, arrays, g)]_vars

\* a stage was registered on the parent after the child, which inherited a
\* stage and a listener, was created: the parent has a stage the child lacks
C7_Witness ==
  /\ Len(loggers) >= 2 /\ path[2].parent = 1
  /\ last.op = "use" /\ last.lg = 1
  /\ Len(StagesOf(loggers, arrays, 2)) = 1
  /\ Len(ListenersOf(loggers, arrays, 2)) = 1
  /\ Len(StagesOf(loggers, arrays, 1)) = 2

----------------------------------------------------------------------------
(* C8 *)

\* what a log call on logger g would write now, for every call
Observable(g) ==
  [args \in SharedArgs |->
     SelectSeq(logWithMiddleware(g, INFO, args, loggers, arrays, counts, now).events,
               LAMBDA e : e.t = "out")]

\* C8 (as claimed): no operation on one logger changes what a later log call
\* on another logger of the family emits, stateful inherited stages included.
C8_NoSharedState ==
  [][last'.op \in {"log", "use"} =>
       \A g \in 1..Len(loggers) :
         g # last'.lg => Observable(g)' = Observable(g)]_vars

----------------------------------------------------------------------------
(* C9 *)

\* the root namespace, when there is a non-empty one, and the segments
PathParts(g) ==
  (IF TruthyStr(path[g].root) THEN <<path[g].root[1]>> ELSE <<>>) \o path[g].segs

RECURSIVE DropLeadingEmpty(_)
DropLeadingEmpty(parts) ==
  IF parts # <<>> /\ Head(parts) = EmptyStr THEN DropLeadingEmpty(Tail(parts)) ELSE parts

\* child() joins the parent's namespace and the segment, and every Context of
\* a log call carries the logger's namespace (none when it is absent or empty)
C9_StepAndContext ==
  /\ \A g \in 1..Len(loggers) :
       path[g].parent # 0 =>
         loggers[g].namespace =
           Some(IF TruthyStr(loggers[path[g].parent].namespace)
                  THEN loggers[path[g].parent].namespace[1] \o <<":">> \o path[g].segs[Len(path[g].segs)]
                  ELSE path[g].segs[Len(path[g].segs)])
  /\ last.op = "log" =>
       \A k \in 1..Len(Events) :
         Events[k].ctx.namespace =
           (IF TruthyStr(loggers[last.lg].namespace) THEN loggers[last.lg].namespace ELSE Undef)

\* C9 (as claimed): over any chain of child() calls the namespace is the
\* colon-joined path of the root namespace and all segments in order.
C9_NamespaceIsJoinedPath ==
  /\ C9_StepAndContext
  /\ \A g \in 1..Len(loggers) :
       path[g].parent # 0 => loggers[g].namespace = Some(Join(PathParts(g), <<":">>))

\* C9 (amended): as claimed, with the empty components at the head of the
\* path (an empty root namespace, empty segments before the first non-empty
\* component) not counted.
C9_NamespaceIsJoinedPathFromFirstNonEmpty ==
  /\ C9_StepAndContext
  /\ \A g \in 1..Len(loggers) :
       path[g].parent # 0 =>
         loggers[g].namespace = Some(Join(DropLeadingEmpty(PathParts(g)), <<":">>))

\* a grandchild of a root without namespace, made with an empty segment and
\* then a non-empty one, has logged with just the second segment as namespace
C9_Witness ==
  /\ Len(loggers) = 3 /\ path[3].root = Undef
  /\ path[3].segs = <<EmptyStr, Str("pool")>>
  /\ loggers[3].namespace = Some(Str("pool"))
  /\ last.op = "log" /\ last.lg = 3 /\ Len(Events) > 0
  /\ Events[1].ctx.namespace = Some(Str("pool"))

----------------------------------------------------------------------------
(* C10 *)

Settings(lg) ==
  <<lg.logLevel, lg.colorsEnabled, lg.timestampFormat, lg.depth, lg.maxArrayLength>>

\* an override when one is supplied, the parent's value otherwise
OrParent(override, parentValue) == IF override # Undef THEN override[1] ELSE parentValue

\* C10: at creation each setting of the child is the override when one is
\* supplied (a timestamp override of true being the mode 'iso'), falsy
\* overrides included, and the parent's current value otherwise; and a setter
\* called on one logger leaves the settings of every other logger unchanged.
C10_ChildSettings ==
  [][/\ last'.op = "child" =>
          LET child == loggers'[Len(loggers')]
              parent == loggers[last'.lg]
              o == last'.opts
          IN /\ child.logLevel = OrParent(o.level, parent.logLevel)
             /\ child.colorsEnabled = OrParent(o.colors, parent.colorsEnabled)
             /\ child.depth = OrParent(o.depth, parent.depth)
             /\ child.maxArrayLength = OrParent(o.maxArrayLength, parent.maxArrayLength)
             /\ child.timestampFormat =
                  (IF o.timestamp = Some("true") THEN "iso"
                   ELSE OrParent(o.timestamp, parent.timestampFormat))
     /\ last'.op \in {"set", "setLevel"} =>
          \A g \in 1..Len(loggers) :
            g # last'.lg => Settings(loggers'[g]) = Settings(loggers[g])]_vars

\* a child was created with every override falsy from a parent whose
\* settings had been changed by setters: the child has the overrides
C10_Witness ==
  /\ last.op = "child" /\ Len(loggers) = 2
  /\ last.opts.level = Some(TRACE) /\ last.opts.timestamp = Some("false")
  /\ Settings(loggers[1]) = <<DEBUG, TRUE, "unix", 0, DefaultMaxArrayLength>>
  /\ Settings(loggers[2]) = <<TRACE, FALSE, "false", 0, 0>>

----------------------------------------------------------------------------
(* SpecSilent: one logger that is silenced and un-silenced, with stages    *)
(* that continue, halt or throw, and a listener.                           *)

SilentStages == {"pass", "halt", "throws"}

NextSilent ==
  \/ \E st \in SilentStages : Use(1, st, MaxSilentStages)
  \/ AddListener(1, "L1", MaxSilentListeners)
  \/ \E T \in Thresholds : SetLevel(1, T)
  \/ Silent(1)
  \/ \E level \in CallLevels : Log(1, level, <<StrVal(<<"m">>)>>)

SpecSilent == InitSettings /\ [][NextSilent]_vars

----------------------------------------------------------------------------
(* C11 *)

\* silent() and setLevel(SILENT) make SILENT the threshold, and only a
\* setLevel to another level ends it
C11_SilentUntilSetLevel ==
  /\ last'.op = "silent" => loggers'[last'.lg].logLevel = SILENT
  /\ (last'.op = "setLevel" /\ last'.T = SILENT) => loggers'[last'.lg].logLevel = SILENT
  /\ \A g \in 1..Len(loggers) :
       loggers[g].logLevel = SILENT =>
         \/ loggers'[g].logLevel = SILENT
         \/ last'.op = "setLevel" /\ last'.lg = g /\ last'.T # SILENT

----------------------------------------------------------------------------
(* SpecFan: the listener list of one logger, with listeners that return    *)
(* and one that throws, registered (also twice) and removed, and log calls *)
(* without a stage and through a stage.                                    *)

NextFan ==
  \/ \E st \in {"pass", "twice"} : Use(1, st, MaxFanStages)
  \/ \E l \in Listeners : AddListener(1, l, MaxFanListeners)
  \/ \E l \in Listeners : RemoveListener(1, l)
  \/ Log(1, INFO, <<StrVal(<<"m">>)>>)

SpecFan == InitSettings /\ [][NextFan]_vars

----------------------------------------------------------------------------
(* C12 *)

\* C12 (as claimed): on each passing emission every registered listener is
\* invoked exactly once, in registration order, after the message has been
\* written.
C12_EveryListenerOncePerEmission ==
  last.op = "log" =>
    /\ \A k \in 1..Len(Events) :
         Events[k].t = "out" =>
           \A j \in 1..Len(last.ls) :
             /\ k + j <= Len(Events)
             /\ Events[k + j].t = "listener"
             /\ Events[k + j].i = j
             /\ Events[k + j].s = last.ls[j]
    /\ Count("listener") = Count("out") * Len(last.ls)

----------------------------------------------------------------------------
(* SpecFormat: the text that is written.  The logger is built with or      *)
(* without a namespace, a timestamp mode, colors and the threshold TRACE;  *)
(* its stages append to args or set formattedMessage; calls at every level.*)

FormatOptions ==
  {[NoOptions EXCEPT !.level = lv, !.namespace = ns, !.timestamp = ts, !.colors = co] :
     lv \in {Undef, Some(TRACE)}, ns \in {Undef, Some(Str("app"))},
     ts \in {Undef, Some("iso")}, co \in {Undef, Some(FALSE)}}

InitFormat == \E o \in FormatOptions : InitWith(o)

NextFormat ==
  \/ \E st \in FormatStages \cup {"suffixA"} : Use(1, st, MaxFormatStages)
  \/ AddListener(1, "L1", MaxFormatListeners)
  \/ \E level \in CallLevels, args \in CallArgs : Log(1, level, args)

SpecFormat == InitFormat /\ [][NextFormat]_vars

----------------------------------------------------------------------------
(* C13 *)

\* the position of the emission a listener event at position k belongs to
EmissionOf(k) ==
  CHOOSE j \in 0..k : /\ j > 0 => Events[j].t = "out"
                      /\ \A q \in (j + 1)..k : Events[q].t # "out"

\* C13 (as claimed): the Context passed to each listener carries the
\* mutations of the stages (it is the Context of the emission) and its
\* formattedMessage is the text that was written, also when no stage set
\* formattedMessage.
C13_ListenerSeesFinishedContext ==
  last.op = "log" =>
    \A k \in 1..Len(Events) :
      Events[k].t = "listener" =>
        /\ EmissionOf(k) > 0
        /\ Events[k].ctx.args = Events[EmissionOf(k)].ctx.args
        /\ Events[k].ctx.formattedMessage = Some(Events[EmissionOf(k)].text)

----------------------------------------------------------------------------
(* C14 *)

\* the listener l is registered on logger g
Registered(lgs, h, g, l) ==
  \E k \in 1..Len(ListenersOf(lgs, h, g)) : ListenersOf(lgs, h, g)[k] = l

\* C14: removeListener(l) leaves the other listeners registered in their
\* order and l not registered; a listener that is not registered stays so
\* whatever operation follows, except addListener of that listener; and a log
\* call invokes registered listeners only, in the order of the list, so l is
\* not invoked by any call made after its removal.
C14_RemovedListenerNotInvoked ==
  [][/\ last'.op = "removeListener" =>
          /\ ListenersOf(loggers', arrays', last'.lg) =
               SelectSeq(ListenersOf(loggers, arrays, last'.lg), LAMBDA x : x # last'.ls[1])
          /\ ~Registered(loggers', arrays', last'.lg, last'.ls[1])
     /\ \A g \in 1..Len(loggers), l \in Listeners :
          (/\ ~Registered(loggers, arrays, g, l)
           /\ ~(last'.op = "addListener" /\ last'.lg = g /\ last'.ls = <<l>>)) =>
            ~Registered(loggers', arrays', g, l)
     /\ last'.op = "log" =>
          \A k \in 1..Len(last'.events) :
            last'.events[k].t = "listener" =>
              /\ last'.events[k].i \in 1..Len(ListenersOf(loggers, arrays, last'.lg))
              /\ last'.events[k].s = ListenersOf(loggers, arrays, last'.lg)[last'.events[k].i]
              /\ k > 1
              /\ IF last'.events[k].i = 1 THEN last'.events[k - 1].t = "out"
                 ELSE /\ last'.events[k - 1].t = "listener"
                      /\ last'.events[k - 1].i = last'.events[k].i - 1]_vars

\* L1 has been removed from a list that held it and L2: L2 alone is left
C14_Witness ==
  /\ last.op = "removeListener" /\ last.ls = <<"L1">> /\ last.outcome = "removed"
  /\ ListenersOf(loggers, arrays, 1) = <<"L2">>

----------------------------------------------------------------------------
(* C15 *)

\* C15 (as claimed): when a listener throws during fan-out, every listener
\* registered after it is still invoked for that emission.
C15_ListenerFailureIsolated ==
  last.op = "log" =>
    \A k \in 1..Len(Events) :
      (Events[k].t = "listener" /\ ListenerThrows(Events[k].s)) =>
        \A j \in 1..(Len(last.ls) - Events[k].i) :
          /\ k + 1 + j <= Len(Events)
          /\ Events[k + 1 + j].t = "listener"
          /\ Events[k + 1 + j].i = Events[k].i + j

----------------------------------------------------------------------------
(* C16 *)

\* the channel the claim gives each level
RouteOf(level) ==
  CASE level \in {ERROR, FATAL} -> "error"
    [] level = WARNING -> "warn"
    [] level \in {TRACE, DEBUG, INFO} -> "log"

\* C16: a call that passes the gate writes its message once, to the channel
\* that is a function of the level alone (error for ERROR and FATAL, warn for
\* WARNING, log for TRACE, DEBUG and INFO), whatever the namespace, timestamp
\* mode, colors, threshold, stages and formattedMessage of the logger.
C16_RoutingByLevel ==
  last.op = "log" =>
    /\ \A k \in 1..Len(Events) :
         Events[k].t = "out" =>
           /\ Events[k].ctx.level = last.level
           /\ Events[k].ch = RouteOf(last.level)
    /\ Count("out") = (IF last.level >= last.T THEN 1 ELSE 0)

\* a WARNING call on a logger with a namespace, the iso timestamp, no colors
\* and the JSON stage was written to the warning channel
C16_Witness ==
  /\ last.op = "log" /\ last.level = WARNING
  /\ loggers[1].namespace = Some(Str("app")) /\ loggers[1].timestampFormat = "iso"
  /\ ~loggers[1].colorsEnabled /\ last.mw = <<"json">>
  /\ \E k \in 1..Len(Events) : Events[k].t = "out" /\ Events[k].ch = "warn"

----------------------------------------------------------------------------
(* C17 *)

\* the default text without colors: the bracketed timestamp when a mode is
\* set, the bracketed namespace when there is one, the bracketed level name
\* and the formatted args, joined by spaces
PlainText(lg, ctx) ==
  Join((IF lg.timestampFormat # "false"
          THEN <<<<"[">> \o formatTimestamp(lg, ctx.timestamp) \o <<"]">>>> ELSE <<>>)
       \o (IF ctx.namespace # Undef THEN <<<<"[">> \o ctx.namespace[1] \o <<"]">>>> ELSE <<>>)
       \o <<<<"[", LevelName(ctx.level), "]">>, formatArgs(ctx.args, lg.depth, FALSE)>>,
       <<" ">>)

\* C17: when the Context that reaches the gate has formattedMessage set, the
\* empty string included, the text written is exactly formattedMessage; when
\* it is unset the text is the default formatting of the Context: timestamp,
\* namespace, level name and formatted args.
C17_FormattedMessageBypassesFormatting ==
  last.op = "log" =>
    \A k \in 1..Len(Events) :
      Events[k].t = "out" =>
        IF Events[k].ctx.formattedMessage # Undef
          THEN Events[k].text = Events[k].ctx.formattedMessage[1]
          ELSE /\ Events[k].text = formatMessage(loggers[last.lg], Events[k].ctx)
               /\ ~loggers[last.lg].colorsEnabled =>
                    Events[k].text = PlainText(loggers[last.lg], Events[k].ctx)

\* a stage set formattedMessage to the empty string and the empty text was
\* written
C17_Witness ==
  /\ last.op = "log" /\ last.mw = <<"suffixA", "fmtEmpty">>
  /\ \E k \in 1..Len(Events) :
       /\ Events[k].t = "out"
       /\ Events[k].ctx.formattedMessage = Some(EmptyStr)
       /\ Events[k].text = EmptyStr

----------------------------------------------------------------------------
(* SpecThrottle: one logger with the rate limiter of limit 1 and interval  *)
(* 2, calls with three keys, and the clock.                                *)

NextThrottle ==
  \/ \E st \in {"pass", "throttle"} : Use(1, st, MaxThrottleStages)
  \/ \E args \in SharedArgs : Log(1, INFO, args)
  \/ Log(1, ERROR, <<StrVal(<<"x">>)>>)
  \/ Tick

SpecThrottle == InitSettings /\ [][NextThrottle]_vars

----------------------------------------------------------------------------
(* C18 *)

\* the calls of stage st with the key `key` that were let through before the
\* event at position k of the call `events` made at time `clock`: those of
\* earlier calls (adm) and those earlier in this call
AdmittedTimes(adm, events, k, st, key, clock) ==
  {a.t : a \in {b \in adm : b.s = st /\ b.key = key}}
  \cup {clock : j \in {q \in 1..(k - 1) : /\ events[q].t = "next" /\ events[q].s = st
                                          /\ ThrottleKey(events[q].ctx) = key}}

\* the stage entered at position k of events called its continuation
LetThrough(events, k) ==
  /\ k < Len(events)
  /\ events[k + 1].t = "next" /\ events[k + 1].i = events[k].i

\* C18: with limit 1 and window W, a call that reaches the rate limiter is
\* let through iff no call with the same key was let through at a time t
\* with t <= now < t + W: after an admission at t the calls with that key
\* before t + W are suppressed, a call at or after t + W is admitted again,
\* and calls with other keys are not affected.
C18_LimitOnePerWindow ==
  [][last'.op = "log" =>
       \A k \in 1..Len(last'.events) :
         (last'.events[k].t = "enter" /\ last'.events[k].s = "throttle") =>
           (LetThrough(last'.events, k) <=>
              \A t \in AdmittedTimes(admitted, last'.events, k, "throttle",
                                      ThrottleKey(last'.events[k].ctx), now) :
                now >= t + ThrottleOptions.interval)]_vars

\* a call with the key of a call admitted at time 0 was admitted again at
\* time 2, the end of the window
C18_Witness ==
  /\ last.op = "log" /\ last.mw = <<"throttle">> /\ now = ThrottleOptions.interval
  /\ Count("out") = 1
  /\ \E a, b \in admitted :
       /\ a.s = "throttle" /\ b.s = "throttle" /\ a.key = b.key
       /\ a.key = ThrottleKey(Events[1].ctx)
       /\ a.t = 0 /\ b.t = ThrottleOptions.interval

----------------------------------------------------------------------------
(* SpecWindow: one logger with a rate limiter of limit 1 or of limit 2     *)
(* (interval 2), calls with two keys, and the clock.                       *)

NextWindow ==
  \/ \E st \in ThrottleStages : Use(1, st, MaxWindowStages)
  \/ \E args \in SharedArgs : Log(1, INFO, args)
  \/ Tick

SpecWindow == InitSettings /\ [][NextWindow]_vars

----------------------------------------------------------------------------
(* C19 *)

\* C19 (as claimed): for every rate limiter, every key and every interval
\* [start, start + D) of the duration D of the limiter, at most N (its
\* limit) calls with that key were admitted at a time inside the interval.
C19_AtMostNPerRollingWindow ==
  \A st \in ThrottleStages, a \in admitted, start \in 0..MaxTime :
    a.s = st =>
    Cardinality({b \in admitted : /\ b.s = st /\ b.key = a.key
                                  /\ start <= b.t /\ b.t < start + OptionsOf(st).interval})
      <= OptionsOf(st).limit

----------------------------------------------------------------------------
(* SpecRedact: one logger with redaction stages and calls whose arguments  *)
(* hold the patterns never, once, several times, and a number.             *)

RedactCallArgs ==
  {<<StrVal(<<"a">>)>>,
   <<StrVal(<<"a", "s">>)>>,
   <<StrVal(<<"s", "a", "s">>)>>,
   <<StrVal(<<"s">>), NumVal(<<"7">>)>>,
   <<StrVal(<<"a", "s", "k", "s", "k">>), StrVal(<<"k", "a", "k">>)>>}

NextRedact ==
  \/ \E st \in RedactStages : Use(1, st, MaxRedactStages)
  \/ \E args \in RedactCallArgs : Log(1, INFO, args)

SpecRedact == InitSettings /\ [][NextRedact]_vars

----------------------------------------------------------------------------
(* C20 *)

\* lit occurs in str
Occurs(str, lit) ==
  \E k \in 1..Len(str) : k + Len(lit) - 1 <= Len(str) /\ SubSeq(str, k, k + Len(lit) - 1) = lit

\* C20 (as claimed): when a redaction stage has run (it calls its
\* continuation), no text argument holds a match of any of its patterns, a
\* text argument that held one holds the placeholder, the other arguments
\* are unchanged; and the text that is written holds no match of a pattern.
C20_RedactionRemovesEveryMatch ==
  last.op = "log" =>
    \A k \in 2..Len(Events) :
      (Events[k].t = "next" /\ Events[k].s \in RedactStages) =>
        LET before == Events[k - 1].ctx.args
            after == Events[k].ctx.args
            patterns == PatternsOf(Events[k].s)
        IN /\ Len(after) = Len(before)
           /\ \A a \in 1..Len(after) :
                IF before[a].ty = "string"
                  THEN /\ after[a].ty = "string"
                       /\ \A p \in 1..Len(patterns) : ~Occurs(after[a].s, patterns[p].lit)
                       /\ (\E p \in 1..Len(patterns) : Occurs(before[a].s, patterns[p].lit)) =>
                            Occurs(after[a].s, Placeholder)
                  ELSE after[a] = before[a]
           /\ \A j \in k..Len(Events) :
                Events[j].t = "out" =>
                  \A p \in 1..Len(patterns) : ~Occurs(Events[j].text, patterns[p].lit)

----------------------------------------------------------------------------
(* C21 *)

\* the last stage of mw that sets formattedMessage (0 when there is none)
LastFormatStage(mw) ==
  CHOOSE p \in 0..Len(mw) : /\ p > 0 => mw[p] \in FormatStages
                            /\ \A q \in (p + 1)..Len(mw) : mw[q] \notin FormatStages

\* the members of a serialized object, in order
KeyValue(key, value) == <<"\"" \o key \o "\":", "\"">> \o value \o <<"\"">>

\* the space-joined rendering of args: strings as they are, numbers by
\* their digits
Rendering(args) == Join([k \in 1..Len(args) |-> args[k].s], <<" ">>)

\* C21: when the JSON stage is the stage whose formattedMessage reaches the
\* gate, the text of every passing call is the serialized object with the
\* keys timestamp, level, namespace (only when the logger has one) and
\* message, where level is the name of the level of the call and message is
\* the space-joined rendering of the args the stage received.
C21_JsonShape ==
  (last.op = "log" /\ LastFormatStage(last.mw) > 0
     /\ last.mw[LastFormatStage(last.mw)] = "json") =>
    LET p == LastFormatStage(last.mw)
        received == last.args \o Literals(SubSeq(last.mw, 1, p - 1))
        ns == loggers[last.lg].namespace
    IN /\ Count("out") = (IF last.level >= last.T THEN 1 ELSE 0)
       /\ \A k \in 1..Len(Events) :
            Events[k].t = "out" =>
              Events[k].text =
                <<"{">> \o KeyValue("timestamp", <<"iso", ToString(now)>>)
                \o <<",">> \o KeyValue("level", <<LevelName(last.level)>>)
                \o (IF ns # Undef THEN <<",">> \o KeyValue("namespace", ns[1]) ELSE <<>>)
                \o <<",">> \o KeyValue("message", Rendering(received)) \o <<"}">>

\* a WARNING call with a string and a number on a logger with the namespace
\* app, a suffix stage and then the JSON stage was written as an object
C21_Witness ==
  /\ last.op = "log" /\ last.level = WARNING /\ Len(last.args) = 2
  /\ last.mw = <<"suffixA", "json">> /\ loggers[1].namespace = Some(Str("app"))
  /\ \E k \in 1..Len(Events) :
       /\ Events[k].t = "out"
       /\ Events[k].text =
            <<"{", "\"timestamp\":", "\"", "iso", "0", "\"", ",", "\"level\":", "\"", "WARNING",
              "\"", ",", "\"namespace\":", "\"", "app", "\"", ",", "\"message\":", "\"",
              "m", " ", "7", " ", "A", "\"", "}">>

----------------------------------------------------------------------------
(* SpecInflight: one logger whose listeners remove and add a listener      *)
(* while the fan-out runs, called without a stage and through a stage.     *)
(* A log call is made while the list is within its bound.                  *)

NextInflight ==
  \/ Use(1, "pass", MaxInflightStages)
  \/ \E l \in InflightListeners : AddListener(1, l, MaxInflightListeners)
  \/ /\ Len(ListenersOf(loggers, arrays, 1)) <= MaxInflightListeners
     /\ Log(1, INFO, <<StrVal(<<"m">>)>>)

SpecInflight == InitSettings /\ [][NextInflight]_vars

----------------------------------------------------------------------------
(* C22 *)

\* the listener list after the listeners of `todo` have run, in order
RECURSIVE AfterFanOut(_, _)
AfterFanOut(todo, list) ==
  IF todo = <<>> THEN list
  ELSE AfterFanOut(Tail(todo),
         CASE Head(todo) = "Lrem2" -> SelectSeq(list, LAMBDA x : x # "L2")
           [] Head(todo) = "Ladd2" -> Append(list, "L2")
           [] OTHER -> list)

\* the names of the listeners a call invoked, in order
Invoked(events) ==
  LET ls == SelectSeq(events, LAMBDA e : e.t = "listener")
  IN [k \in 1..Len(ls) |-> ls[k].s]

\* C22: an emission invokes exactly the listeners registered when its
\* fan-out began, in order: a listener removed during the fan-out before its
\* turn is still invoked, a listener added during the fan-out is not; and
\* the removals and additions hold for the list the next emission uses.
C22_FanOutUsesListAtStart ==
  [][last'.op = "log" =>
       LET before == ListenersOf(loggers, arrays, last'.lg)
       IN /\ Invoked(last'.events) = before
          /\ ListenersOf(loggers', arrays', last'.lg) = AfterFanOut(before, before)]_vars

\* the first listener removed L2 during the fan-out: L2 was still invoked for
\* that emission and is no longer registered
C22_Witness ==
  /\ last.op = "log" /\ last.ls = <<"Lrem2", "L2">>
  /\ Invoked(Events) = <<"Lrem2", "L2">>
  /\ ListenersOf(loggers, arrays, 1) = <<"Lrem2">>

----------------------------------------------------------------------------
(* SpecFresh: successive calls on one logger, with or without a namespace, *)
(* whose stages write args, level and formattedMessage into the Context    *)
(* and whose throttle stage records the calls that went through.           *)

FreshStages == {"suffixA", "toError", "json", "throttle"}

InitFresh ==
  \E ns \in {Undef, Some(<<"app">>)} : InitWith([NoOptions EXCEPT !.namespace = ns])

NextFresh ==
  \/ \E st \in FreshStages : Use(1, st, MaxFreshStages)
  \/ \E args \in CallArgs : Log(1, INFO, args)
  \/ Tick

SpecFresh == InitFresh /\ [][NextFresh]_vars

----------------------------------------------------------------------------
(* C23 *)

----------------------------------------------------------------------------
(* SpecCond: one logger with stages made by conditionalMiddleware, around  *)
(* an inner stage that continues, stops or continues twice, with a stage   *)
(* that raises the level of the Context in front of or behind them.        *)

CondStages == ConditionalStages \cup {"pass", "toError"}

NextCond ==
  \/ \E st \in CondStages : Use(1, st, MaxCondStages)
  \/ AddListener(1, "L1", MaxCondListeners)
  \/ \E level \in {WARNING, ERROR}, args \in CallArgs : Log(1, level, args)

SpecCond == InitSettings /\ [][NextCond]_vars

----------------------------------------------------------------------------
(* C24 *)

\* the number of times the script of the stage s calls the continuation
NextCalls(s) == Cardinality({k \in 1..Len(Script(s)) : Script(s)[k] = "next"})

\* C24: for every entry of a stage of conditionalMiddleware, at position p
\* with the Context ctx: the inner stage is invoked exactly when the
\* condition holds of ctx; when it does not hold, the continuation is called
\* exactly once, as the step right after the entry and with ctx unchanged;
\* when it holds, the continuation is called as often as the inner stage
\* calls it (never, once, twice), at first from the inner stage.
C24_ConditionalStage ==
  last.op = "log" =>
    \A k \in 1..Len(Events) :
      (Events[k].t = "enter" /\ Events[k].s \in ConditionalStages) =>
        LET p == Events[k].i
            s == Events[k].s
            ctx == Events[k].ctx
        IN /\ k < Len(Events)
           /\ Cardinality(At("inner", p)) = (IF ctx.level >= ERROR THEN 1 ELSE 0)
           /\ ctx.level < ERROR =>
                /\ Cardinality(At("next", p)) = 1
                /\ Events[k + 1].t = "next" /\ Events[k + 1].i = p
                /\ Events[k + 1].ctx = ctx
           /\ ctx.level >= ERROR =>
                /\ Events[k + 1].t = "inner" /\ Events[k + 1].i = p
                /\ Events[k + 1].s = InnerOf(s) /\ Events[k + 1].ctx = ctx
                /\ Cardinality(At("next", p)) = NextCalls(InnerOf(s))

\* a WARNING call passes a conditional stage untouched, is raised to ERROR,
\* and is stopped by the inner stage of the next conditional stage
C24_Witness ==
  /\ last.op = "log" /\ last.level = WARNING
  /\ last.mw = <<"ifErrorSuffixA", "toError", "ifErrorHalt">>
  /\ At("inner", 1) = {} /\ Cardinality(At("next", 1)) = 1
  /\ At("inner", 3) # {} /\ At("next", 3) = {}
  /\ Count("out") = 0

----------------------------------------------------------------------------
(* SpecFilter: one logger with stages made by filterLevel, under every     *)
(* threshold and called at every level.                                    *)

NextFilter ==
  \/ \E st \in FilterStages \cup {"pass"} : Use(1, st, MaxFilterStages)
  \/ AddListener(1, "L1", MaxFilterListeners)
  \/ \E T \in Thresholds : SetLevel(1, T)
  \/ \E level \in CallLevels : Log(1, level, <<StrVal(<<"m">>)>>)

SpecFilter == InitSettings /\ [][NextFilter]_vars

----------------------------------------------------------------------------
(* C25 *)

\* the positions of the stages of filterLevel in mw whose minimum the level
\* L does not reach
Stopping(mw, L) == {k \in 1..Len(mw) : mw[k] \in FilterStages /\ L < MinLevel(mw[k])}

\* C25: on a logger with threshold T whose stages are stages of filterLevel
\* and stages that only continue, a call at level L is emitted exactly when
\* L reaches the minimum of every filter, L >= T and T is not SILENT; when L
\* is below the minimum of a filter, the call stops at the first such
\* filter: no stage behind it is entered and no listener is notified.
C25_FilterLevelAndThreshold ==
  (/\ last.op = "log"
   /\ \E k \in 1..Len(last.mw) : last.mw[k] \in FilterStages
   /\ \A k \in 1..Len(last.mw) : last.mw[k] \in FilterStages \cup {"pass"}) =>
    LET L == last.level
        T == last.T
        stop == Stopping(last.mw, L)
    IN /\ Count("out") = (IF stop = {} /\ L >= T /\ T # SILENT THEN 1 ELSE 0)
       /\ Count("listener") = Count("out") * Len(last.ls)
       /\ stop # {} =>
            LET p == CHOOSE k \in stop : \A q \in stop : k <= q
            IN /\ Halted(p)
               /\ \A q \in 1..p : At("enter", q) # {}
               /\ \A q \in (p + 1)..Len(last.mw) : At("enter", q) = {}
               /\ Count("listener") = 0

\* an INFO call on a logger whose threshold INFO lets it through stops at
\* filterLevel(WARNING): the stage behind the filter is not entered and the
\* registered listener is not notified
C25_Witness ==
  /\ last.op = "log" /\ last.level = INFO /\ last.T = INFO
  /\ last.mw = <<"filterWarning", "pass">> /\ last.ls = <<"L1">>
  /\ At("enter", 1) # {} /\ At("enter", 2) = {}
  /\ Count("out") = 0 /\ Count("listener") = 0

----------------------------------------------------------------------------
(* SpecBatch: one logger with stages of batchMiddleware (each closure      *)
(* registered once) whose onFlush returns normally; the host fires the     *)
(* pending timeouts between the calls.                                     *)

\* use(st), a closure of batchMiddleware being registered once
UseBatch(st) ==
  /\ st \in BatchStages => \A k \in 1..Len(StagesOf(loggers, arrays, 1)) :
                              StagesOf(loggers, arrays, 1)[k] # st
  /\ Use(1, st, MaxBatchStages)

\* a log call, while fewer than MaxBatchCalls Contexts entered each stage
LogBatch ==
  /\ \A s \in BatchStages : batches[s].entered < MaxBatchCalls
  /\ Log(1, INFO, <<StrVal(<<"m">>)>>)

NextBatch ==
  \/ \E st \in BatchStages \cup {"pass", "halt"} : UseBatch(st)
  \/ LogBatch
  \/ \E s \in BatchStages : TimerFires(s)

SpecBatch == InitSettings /\ [][NextBatch]_vars

----------------------------------------------------------------------------
(* C26 *)

\* the concatenation of the sequences of seqs
RECURSIVE Flatten(_)
Flatten(seqs) == IF seqs = <<>> THEN <<>> ELSE Head(seqs) \o Flatten(Tail(seqs))

\* C26: with an onFlush that returns normally, for each batching stage: the
\* arrays onFlush was called with, one after the other and followed by the
\* buffer, are the Contexts that entered the stage in their order of arrival,
\* each once (so no Context is passed to onFlush twice and each array is in
\* arrival order); no array is empty or longer than maxSize; between the
\* operations the buffer holds fewer than maxSize Contexts and a timeout is
\* pending exactly when the buffer is not empty.
C26_BatchSafety ==
  \A s \in BatchStages :
    LET b == batches[s]
    IN /\ Flatten(b.flushed) \o b.batch = [i \in 1..b.entered |-> i]
       /\ \A k \in 1..Len(b.flushed) :
            Len(b.flushed[k]) >= 1 /\ Len(b.flushed[k]) <= BatchOptions(s).maxSize
       /\ Len(b.batch) < BatchOptions(s).maxSize
       /\ b.pending <=> (b.batch # <<>>)
       /\ b.timer <=> b.pending

\* the stage with maxSize 3 delivered three Contexts by size, then one when
\* the timeout fired, and holds a fifth with a new timeout pending
C26_Witness ==
  /\ batches["batch"].flushed = <<(<<1, 2, 3>>), (<<4>>)>>
  /\ batches["batch"].batch = <<5>>
  /\ batches["batch"].pending
  /\ last.op = "log"

----------------------------------------------------------------------------
(* SpecBatchLive: SpecBatch with an onFlush that the environment makes     *)
(* throw or return.  The host runs a timeout that stays pending (weak      *)
(* fairness of TimerFires); nothing obliges the program to log again.      *)

NextBatchLive ==
  \/ NextBatch
  \/ \E s \in BatchStages, b \in BOOLEAN : OnFlushThrows(s, b)

SpecBatchLive ==
  /\ InitSettings
  /\ [][NextBatchLive]_vars
  /\ \A s \in BatchStages : WF_vars(TimerFires(s))

----------------------------------------------------------------------------
(* C27 *)

\* onFlush of the stage s was called with an array that holds the Context id
PassedToOnFlush(s, id) ==
  \E k \in 1..Len(batches[s].flushed) :
    \E j \in 1..Len(batches[s].flushed[k]) : batches[s].flushed[k][j] = id

\* C27: every Context that enters a batching stage is eventually passed to
\* onFlush, also when an earlier call of onFlush has thrown.
C27_EveryContextDelivered ==
  \A s \in BatchStages : \A id \in 1..MaxBatchCalls :
    (batches[s].entered >= id) ~> PassedToOnFlush(s, id)

----------------------------------------------------------------------------
(* C28 *)

\* what a log call shows to the outside: the texts written with their
\* channels and the listeners notified, in order
Shown(events) ==
  LET es == SelectSeq(events, LAMBDA e : e.t \in {"out", "report", "listener"})
  IN [k \in 1..Len(es) |-> [t |-> es[k].t, s |-> es[k].s, ch |-> es[k].ch, text |-> es[k].text]]

\* the same call on the same logger with no stage registered
WithoutStages(g, level, args) ==
  logWithMiddleware(g, level, args, loggers,
                    [arrays EXCEPT ![loggers[g].middleware] = <<>>], counts, now)

\* C28 (as claimed): a log call on a logger whose stages only call their
\* continuation writes the same texts to the same channels, notifies the
\* same listeners and gives the caller the same outcome as the same call on
\* the logger without stages, whatever the listeners do.
C28_PassOnlyStagesAreInvisible ==
  [][(/\ last'.op = "log"
      /\ \A k \in 1..Len(StagesOf(loggers, arrays, last'.lg)) :
            StagesOf(loggers, arrays, last'.lg)[k] = "pass") =>
       LET Z == WithoutStages(last'.lg, last'.level, last'.args)
       IN /\ Shown(last'.events) = Shown(Z.events)
          /\ last'.outcome = (IF Z.exc THEN "threw" ELSE "returned")]_vars

----------------------------------------------------------------------------
(* SpecLate: one logger under every threshold, silent included, whose      *)
(* stages assign ctx.level, call setLevel on the logger, continue or stop. *)

NextLate ==
  \/ \E st \in LateStages \cup {"pass", "halt"} : Use(1, st, MaxLateStages)
  \/ AddListener(1, "L1", MaxLateListeners)
  \/ \E T \in Thresholds : SetLevel(1, T)
  \/ Silent(1)
  \/ \E level \in CallLevels : Log(1, level, <<StrVal(<<"m">>)>>)

SpecLate == InitSettings /\ [][NextLate]_vars

----------------------------------------------------------------------------
(* C29 *)

\* the stages of mw that run: up to and including the first one that halts
Running(mw) ==
  LET halts == {k \in 1..Len(mw) : mw[k] = "halt"}
  IN IF halts = {} THEN mw
     ELSE SubSeq(mw, 1, CHOOSE k \in halts : \A q \in halts : k <= q)

\* ctx.level after the stages of mw have run on a Context of level L
RECURSIVE LevelAfter(_, _)
LevelAfter(mw, L) ==
  IF mw = <<>> THEN L
  ELSE LevelAfter(Tail(mw), CASE Head(mw) = "toError" -> ERROR
                              [] Head(mw) = "toTrace" -> TRACE
                              [] OTHER -> L)

\* the threshold of the logger after the stages of mw have run
ThresholdAfter(mw, T) ==
  IF \E k \in 1..Len(mw) : mw[k] = "setTrace" THEN TRACE ELSE T

\* C29: whatever the level of the call and the threshold of the logger
\* (SILENT included), every stage up to the first that halts is entered; the
\* message is emitted exactly when no stage halted and the level of the
\* Context as the stages left it is at or above the threshold as the stages
\* left it (and below SILENT), and it goes to the channel of that level.
C29_GateAfterChain ==
  last.op = "log" =>
    LET run == Running(last.mw)
        Lf == LevelAfter(run, last.level)
        Tf == ThresholdAfter(run, last.T)
    IN /\ \A p \in 1..Len(run) : Cardinality(At("enter", p)) = 1
       /\ \A p \in (Len(run) + 1)..Len(last.mw) : At("enter", p) = {}
       /\ Count("out") = (IF Len(run) = Len(last.mw) /\ (run = <<>> \/ run[Len(run)] # "halt")
                              /\ Lf >= Tf /\ Lf < SILENT
                           THEN 1 ELSE 0)
       /\ \A k \in 1..Len(Events) : Events[k].t = "out" => Events[k].ch = RouteOf(Lf)
       /\ loggers[last.lg].logLevel = Tf

\* a DEBUG call on a silent logger: both stages run, the first lowers the
\* threshold to TRACE and the second raises the level to ERROR, and the
\* message is written to the error channel
C29_Witness ==
  /\ last.op = "log" /\ last.level = DEBUG /\ last.T = SILENT
  /\ last.mw = <<"setTrace", "toError">>
  /\ At("enter", 1) # {} /\ At("enter", 2) # {}
  /\ Count("out") = 1
  /\ \E k \in 1..Len(Events) : Events[k].t = "out" /\ Events[k].ch = "error"

----------------------------------------------------------------------------
(* C30 *)

\* C30: when a listener throws during a log call, the message of that
\* emission has been written before; on a logger without stages the
\* exception ends the call and reaches the caller, nothing being reported;
\* on a logger with at least one stage the very next step is the report
\* "Middleware error:" on the error channel, and the call returns normally.
C30_ListenerExceptionNotLost ==
  last.op = "log" =>
    \A k \in 1..Len(Events) :
      (Events[k].t = "throw" /\ Events[k].i = 0) =>
        /\ EmissionOf(k) > 0
        /\ Events[EmissionOf(k)].t = "out"
        /\ Events[EmissionOf(k)].text = Message(loggers[last.lg], Events[k].ctx)
        /\ IF last.mw = <<>>
             THEN /\ k = Len(Events)
                  /\ last.outcome = "threw"
                  /\ Count("report") = 0
             ELSE /\ k < Len(Events)
                  /\ Events[k + 1].t = "report"
                  /\ Events[k + 1].ch = "error"
                  /\ Events[k + 1].text = <<"Middleware error:">>
                  /\ last.outcome = "returned"

\* a call through one stage whose listener throws: the message was written,
\* the exception was reported on the error channel and the call returned
C30_Witness ==
  /\ last.op = "log" /\ last.mw = <<"pass">> /\ last.ls = <<"Lthrow">>
  /\ Count("out") = 1
  /\ \E k \in 1..Len(Events) : Events[k].t = "throw" /\ Events[k].i = 0
  /\ Count("report") = 1
  /\ last.outcome = "returned"

====
